---- MODULE Spec2Model ----
(***************************************************************************)
(* Model of the nano-banana MCP server (src/src/index.ts): the call-tool   *)
(* dispatcher, the eight tool handlers, the zod argument schemas, the      *)
(* image resolver, the response extraction and the artifact writer.        *)
(*                                                                         *)
(* Conventions.                                                            *)
(*  - An optional value is a sequence of length at most one: <<>> is       *)
(*    absent (undefined), <<v>> is present.                                *)
(*  - A zod "number" is held in tenths (Scale): 0.3 is 3, 2.5 is 25.       *)
(*  - Base64 text is a sequence of sextets 0..63, Pad (64) standing for    *)
(*    "="; file contents are sequences of bytes 0..255.                    *)
(*  - A filesystem path given by the caller is a sequence of characters.   *)
(*  - A text built by a template literal is the record or sequence of its  *)
(*    pieces.                                                              *)
(*  - Every await of the source is a point where other work may run: the   *)
(*    actions are the completions of the awaited operations.               *)
(*  - server holds the fields of the server object that outlive a call:   *)
(*    the credential, the model-client handle and the template table.      *)
(***************************************************************************)
EXTENDS Integers, Sequences, FiniteSets, TLC

VARIABLES inbox, calls, files, dirs, clock, server

vars == <<inbox, calls, files, dirs, clock, server>>

(***************************************************************************)
(* Bounds of the model.                                                    *)
(***************************************************************************)
MaxPrompts == 2
MaxImages == 2
MaxClock == 1

Scale == 10
Pad == 64

Calls == {1, 2}

(***************************************************************************)
(* Optional values and small helpers.                                      *)
(***************************************************************************)
None == <<>>
Some(v) == <<v>>
Present(o) == Len(o) = 1

\* JavaScript truthiness of an optional string held as a sequence
Truthy(o) == Len(o) = 1 /\ o[1] # <<>>

(***************************************************************************)
(* Buffer.from(text, 'base64') and buffer.toString('base64').              *)
(***************************************************************************)
RECURSIVE Base64Encode(_)
Base64Encode(b) ==
    IF Len(b) = 0 THEN <<>>
    ELSE IF Len(b) = 1 THEN
        <<b[1] \div 4, (b[1] % 4) * 16, Pad, Pad>>
    ELSE IF Len(b) = 2 THEN
        <<b[1] \div 4, (b[1] % 4) * 16 + (b[2] \div 16), (b[2] % 16) * 4, Pad>>
    ELSE
        <<b[1] \div 4, (b[1] % 4) * 16 + (b[2] \div 16),
          (b[2] % 16) * 4 + (b[3] \div 64), b[3] % 64>>
        \o Base64Encode(SubSeq(b, 4, Len(b)))

\* the sextets before the first "="
RECURSIVE Base64Body(_)
Base64Body(s) ==
    IF Len(s) = 0 \/ s[1] = Pad THEN <<>>
    ELSE <<s[1]>> \o Base64Body(Tail(s))

RECURSIVE Base64Groups(_)
Base64Groups(s) ==
    IF Len(s) < 2 THEN <<>>
    ELSE IF Len(s) = 2 THEN
        <<s[1] * 4 + (s[2] \div 16)>>
    ELSE IF Len(s) = 3 THEN
        <<s[1] * 4 + (s[2] \div 16), (s[2] % 16) * 16 + (s[3] \div 4)>>
    ELSE
        <<s[1] * 4 + (s[2] \div 16), (s[2] % 16) * 16 + (s[3] \div 4),
          (s[3] % 4) * 64 + s[4]>>
        \o Base64Groups(SubSeq(s, 5, Len(s)))

Base64Decode(s) == Base64Groups(Base64Body(s))

\* Buffer.from(data) without the encoding: the text itself is written
FileBytesUndecoded(data) == data

\* Buffer.from(data, 'base64'): the bytes handed to fs.writeFile
FileBytes(data) == Base64Decode(data)

(***************************************************************************)
(* path.extname(p).toLowerCase()                                           *)
(***************************************************************************)
LowerChar(ch) ==
    CASE ch = "J" -> "j" [] ch = "P" -> "p" [] ch = "G" -> "g"
      [] ch = "E" -> "e" [] ch = "N" -> "n" [] ch = "I" -> "i"
      [] ch = "F" -> "f" [] ch = "W" -> "w" [] ch = "B" -> "b"
      [] OTHER -> ch

ToLowerCase(s) == [k \in 1..Len(s) |-> LowerChar(s[k])]

\* index of the last occurrence of ch in s, 0 when there is none
RECURSIVE LastIndexOf(_, _)
LastIndexOf(s, ch) ==
    IF Len(s) = 0 THEN 0
    ELSE IF s[Len(s)] = ch THEN Len(s)
    ELSE LastIndexOf(SubSeq(s, 1, Len(s) - 1), ch)

BaseName(p) == SubSeq(p, LastIndexOf(p, "/") + 1, Len(p))

ExtName(p) ==
    LET base == BaseName(p)
        dot == LastIndexOf(base, ".")
    IN  IF dot <= 1 \/ base = <<".", ".">> THEN <<>>
        ELSE SubSeq(base, dot, Len(base))

\* the five-way switch of the image resolver
MimeFromExt(ext) ==
    CASE ext = <<".", "p", "n", "g">> -> "image/png"
      [] ext = <<".", "j", "p", "g">> -> "image/jpeg"
      [] ext = <<".", "j", "p", "e", "g">> -> "image/jpeg"
      [] ext = <<".", "g", "i", "f">> -> "image/gif"
      [] ext = <<".", "w", "e", "b", "p">> -> "image/webp"
      [] OTHER -> "image/png"

\* the two-way test of handleGenerateVariations
VariationsMimeFromExt(ext) ==
    IF ext = <<".", "j", "p", "g">> \/ ext = <<".", "j", "p", "e", "g">>
    THEN "image/jpeg" ELSE "image/png"

\* handleCompareImages declares both images as PNG
CompareMime(ext) == "image/png"

\* extension of the written file, from the response part's MIME type
ExtensionFromMime(mimeType) ==
    IF mimeType = "image/png" THEN ".png"
    ELSE IF mimeType = "image/jpeg" THEN ".jpg"
    ELSE ".png"

\* batch_generate, generate_variations and generate_with_template write ".png"
FixedPngExtension(mimeType) == ".png"

(***************************************************************************)
(* Argument schemas (zod).  Raw arguments are a record of optional fields. *)
(***************************************************************************)
NoArgs ==
    [prompt |-> None, imageData |-> None, imagePath |-> None,
     images |-> None, outputDir |-> None, config |-> None,
     prompts |-> None, parallel |-> None, count |-> None,
     variationStrength |-> None, template |-> None,
     customization |-> None, image1Path |-> None, image2Path |-> None,
     compareType |-> None]

NoConfig ==
    [temperature |-> None, topP |-> None, topK |-> None,
     maxOutputTokens |-> None]

InRange(o, lo, hi) == ~Present(o) \/ (lo <= o[1] /\ o[1] <= hi)

\* a config schema without the range checks
GenerationConfigSchemaNoRanges(cfg) == TRUE

GenerationConfigSchema(cfg) ==
    ~Present(cfg) \/
        /\ InRange(cfg[1].temperature, 0, 2 * Scale)
        /\ InRange(cfg[1].topP, 0, 1 * Scale)
        /\ InRange(cfg[1].topK, 1 * Scale, 40 * Scale)

GenerateImageArgsSchema(a) ==
    Present(a.prompt) /\ GenerationConfigSchema(a.config)

EditImageArgsSchema(a) ==
    /\ Present(a.prompt)
    /\ GenerationConfigSchema(a.config)
    /\ (Truthy(a.imageData) \/ Truthy(a.imagePath))

AnalyzeImageArgsSchema(a) ==
    /\ Present(a.prompt)
    /\ GenerationConfigSchema(a.config)
    /\ (Truthy(a.imageData) \/ Truthy(a.imagePath))

MultiImageEditArgsSchema(a) ==
    /\ Present(a.prompt)
    /\ Present(a.images)
    /\ Len(a.images[1]) >= 1
    /\ GenerationConfigSchema(a.config)
    /\ \A k \in 1..Len(a.images[1]) :
          Truthy(a.images[1][k].imageData) \/ Truthy(a.images[1][k].imagePath)

BatchGenerateArgsSchema(a) ==
    /\ Present(a.prompts)
    /\ Len(a.prompts[1]) >= 1
    /\ GenerationConfigSchema(a.config)

CompareTypes == {"differences", "similarities", "both"}

CompareImagesArgsSchema(a) ==
    /\ Present(a.image1Path)
    /\ Present(a.image2Path)
    /\ (Present(a.compareType) => a.compareType[1] \in CompareTypes)

Strengths == {"subtle", "moderate", "strong"}

GenerateVariationsArgsSchema(a) ==
    /\ InRange(a.count, 1 * Scale, 5 * Scale)
    /\ (Present(a.variationStrength) => a.variationStrength[1] \in Strengths)
    /\ GenerationConfigSchema(a.config)
    /\ (Truthy(a.imageData) \/ Truthy(a.imagePath))

promptTemplates ==
    [photorealistic |-> "Ultra-realistic photograph, professional photography, highly detailed, sharp focus, natural lighting, 8K resolution, shot with DSLR camera",
     artistic |-> "Artistic interpretation, creative style, expressive brushstrokes, vibrant colors, artistic composition, gallery-worthy artwork",
     logo |-> "Minimalist logo design, clean vector graphics, scalable, professional branding, modern design, simple geometric shapes, memorable icon",
     portrait |-> "Professional portrait photography, well-lit, shallow depth of field, bokeh background, natural skin tones, expressive eyes, studio lighting",
     landscape |-> "Breathtaking landscape photography, golden hour lighting, wide angle shot, dramatic sky, natural scenery, high dynamic range",
     product |-> "Product photography, white background, studio lighting, clean composition, commercial quality, detailed texture, professional presentation",
     architectural |-> "Architectural photography, precise lines, dramatic perspective, professional composition, detailed structure, impressive scale",
     fashion |-> "Fashion photography, editorial style, high-end fashion, professional model pose, stylish composition, magazine quality",
     food |-> "Food photography, appetizing presentation, professional styling, natural lighting, shallow depth of field, culinary art",
     abstract |-> "Abstract art, non-representational, creative composition, bold colors or monochrome, experimental style, artistic expression"]

TemplateNames == DOMAIN promptTemplates

\* the fields of the server object after its constructor
NewServer ==
    [apiKey |-> "GEMINI_API_KEY", genAI |-> "GoogleGenerativeAI",
     promptTemplates |-> promptTemplates]

PromptTemplateArgsSchema(a) ==
    /\ Present(a.template)
    /\ a.template[1] \in TemplateNames
    /\ Present(a.customization)
    /\ GenerationConfigSchema(a.config)

ToolNames ==
    {"generate_image", "edit_image", "analyze_image", "multi_image_edit",
     "batch_generate", "generate_variations", "generate_with_template",
     "compare_images"}

\* schema.parse(args) succeeds
SchemaAccepts(name, a) ==
    CASE name = "generate_image" -> GenerateImageArgsSchema(a)
      [] name = "edit_image" -> EditImageArgsSchema(a)
      [] name = "analyze_image" -> AnalyzeImageArgsSchema(a)
      [] name = "multi_image_edit" -> MultiImageEditArgsSchema(a)
      [] name = "batch_generate" -> BatchGenerateArgsSchema(a)
      [] name = "generate_variations" -> GenerateVariationsArgsSchema(a)
      [] name = "generate_with_template" -> PromptTemplateArgsSchema(a)
      [] name = "compare_images" -> CompareImagesArgsSchema(a)
      [] OTHER -> FALSE

OrElse(o, d) == IF Present(o) THEN o[1] ELSE d

\* the parsed arguments with the schema's and the destructuring's defaults
ParsedArgs(a) ==
    [a EXCEPT !.outputDir = Some(OrElse(a.outputDir, ".")),
              !.parallel = Some(OrElse(a.parallel, FALSE)),
              !.count = Some(OrElse(a.count, 3 * Scale)),
              !.variationStrength = Some(OrElse(a.variationStrength, "moderate")),
              !.compareType = Some(OrElse(a.compareType, "both"))]

(***************************************************************************)
(* Model requests, responses and tool-call results.                        *)
(***************************************************************************)
TextPart(t) == [inline |-> FALSE, data |-> <<>>, mimeType |-> "", text |-> t]
InlinePart(d, m) == [inline |-> TRUE, data |-> d, mimeType |-> m, text |-> <<>>]

ImageModel == "gemini-2.5-flash-image-preview"
TextModel == "gemini-2.5-flash"

Request(model, parts, generationConfig) ==
    [model |-> model, parts |-> parts, generationConfig |-> generationConfig]

\* generationConfig of the image-producing tools
ImageGenerationConfig(config) ==
    IF Present(config)
    THEN Some([temperature |-> config[1].temperature,
               topP |-> config[1].topP,
               topK |-> config[1].topK,
               maxOutputTokens |-> config[1].maxOutputTokens,
               responseModalities |-> Some(<<"TEXT", "IMAGE">>)])
    ELSE Some([temperature |-> None, topP |-> None, topK |-> None,
               maxOutputTokens |-> None,
               responseModalities |-> Some(<<"TEXT", "IMAGE">>)])

\* generationConfig of analyze_image
AnalysisGenerationConfig(config) ==
    IF Present(config)
    THEN Some([temperature |-> config[1].temperature,
               topP |-> config[1].topP,
               topK |-> config[1].topK,
               maxOutputTokens |-> config[1].maxOutputTokens,
               responseModalities |-> None])
    ELSE Some([temperature |-> None, topP |-> None, topK |-> None,
               maxOutputTokens |-> None, responseModalities |-> None])

StrengthTemperature(variationStrength) ==
    IF variationStrength = "subtle" THEN 3
    ELSE IF variationStrength = "moderate" THEN 7
    ELSE 12

\* config.temperature || ...: a temperature of 0 gives way to the strength's
VariationsGenerationConfigFalsy(config, variationStrength) ==
    IF Present(config)
    THEN Some([temperature |->
                   IF Present(config[1].temperature)
                      /\ config[1].temperature[1] # 0
                   THEN config[1].temperature
                   ELSE Some(StrengthTemperature(variationStrength)),
               topP |-> config[1].topP,
               topK |-> config[1].topK,
               maxOutputTokens |-> config[1].maxOutputTokens,
               responseModalities |-> Some(<<"TEXT", "IMAGE">>)])
    ELSE Some([temperature |-> Some(StrengthTemperature(variationStrength)),
               topP |-> None, topK |-> None, maxOutputTokens |-> None,
               responseModalities |-> Some(<<"TEXT", "IMAGE">>)])

\* generationConfig of generate_variations
VariationsGenerationConfig(config, variationStrength) ==
    IF Present(config)
    THEN Some([temperature |->
                   IF Present(config[1].temperature)
                   THEN config[1].temperature
                   ELSE Some(StrengthTemperature(variationStrength)),
               topP |-> config[1].topP,
               topK |-> config[1].topK,
               maxOutputTokens |-> config[1].maxOutputTokens,
               responseModalities |-> Some(<<"TEXT", "IMAGE">>)])
    ELSE Some([temperature |-> Some(StrengthTemperature(variationStrength)),
               topP |-> None, topK |-> None, maxOutputTokens |-> None,
               responseModalities |-> Some(<<"TEXT", "IMAGE">>)])

variationPrompts ==
    [subtle |-> "Create a very similar variation of this image with minimal changes, keeping the same style and composition",
     moderate |-> "Create a variation of this image with moderate changes while maintaining the core concept and style",
     strong |-> "Create a significantly different variation of this image, exploring new interpretations while keeping the main subject"]

comparePrompts ==
    [differences |-> "Compare these two images and describe all the differences between them in detail.",
     similarities |-> "Compare these two images and describe all the similarities between them in detail.",
     both |-> "Compare these two images. First, describe their similarities, then describe their differences. Be thorough and detailed."]

\* a number rendered by a template literal
NumText(n) ==
    IF n % Scale = 0 THEN <<ToString(n \div Scale)>>
    ELSE <<ToString(n \div Scale), ".", ToString(n % Scale)>>

\* path.join(outputDir, filename); index 0: the prefix carries no index
FilePath(dir, prefix, index, ts, ext) ==
    [dir |-> dir, prefix |-> prefix, index |-> index, ts |-> ts, ext |-> ext]

\* index of the first part carrying inlineData, 0 when there is none
RECURSIVE FindInlineFrom(_, _)
FindInlineFrom(parts, k) ==
    IF k > Len(parts) THEN 0
    ELSE IF parts[k].inline THEN k
    ELSE FindInlineFrom(parts, k + 1)

\* index of the last part carrying inlineData, 0 when there is none
RECURSIVE FindInlineLast(_)
FindInlineLast(parts) ==
    IF Len(parts) = 0 THEN 0
    ELSE IF parts[Len(parts)].inline THEN Len(parts)
    ELSE FindInlineLast(SubSeq(parts, 1, Len(parts) - 1))

FindInline(parts) == FindInlineFrom(parts, 1)

Ok(part) == [tag |-> "ok", part |-> part, msg |-> ""]
Thrown(msg) == [tag |-> "throw", part |-> TextPart(<<>>), msg |-> msg]
Nothing == [tag |-> "none", part |-> TextPart(<<>>), msg |-> ""]

TypeErrorParts == "Cannot read properties of undefined (reading 'parts')"

\* the candidate checks of the single-image handlers
ExtractImage(resp, emptyMsg) ==
    IF ~Present(resp.candidates) \/ Len(resp.candidates[1]) = 0
    THEN Thrown(emptyMsg)
    ELSE LET candidate == resp.candidates[1][1] IN
         IF ~Present(candidate.content) THEN Thrown(TypeErrorParts)
         ELSE IF ~Present(candidate.content[1].parts)
                 \/ Len(candidate.content[1].parts[1]) = 0
         THEN Thrown("No content parts in the response")
         ELSE LET parts == candidate.content[1].parts[1]
                  k == FindInline(parts)
              IN  IF k = 0
                  THEN Thrown("No image data found in the response")
                  ELSE Ok(parts[k])

\* result.response.candidates?.[0]?.content.parts, then find: "none" when
\* the chain is undefined or no part carries inlineData
ExtractImageOptional(resp) ==
    IF ~Present(resp.candidates) \/ Len(resp.candidates[1]) = 0
    THEN Nothing
    ELSE LET candidate == resp.candidates[1][1] IN
         IF ~Present(candidate.content) THEN Thrown(TypeErrorParts)
         ELSE IF ~Present(candidate.content[1].parts) THEN Nothing
         ELSE LET parts == candidate.content[1].parts[1]
                  k == FindInline(parts)
              IN  IF k = 0 THEN Nothing ELSE Ok(parts[k])

\* the chain result.response.candidates?.[0]?.content.parts is truthy
HasPartsArray(resp) ==
    /\ Present(resp.candidates)
    /\ Len(resp.candidates[1]) > 0
    /\ Present(resp.candidates[1][1].content)
    /\ Present(resp.candidates[1][1].content[1].parts)

\* result.response.text() of the client library: the text parts of the
\* first candidate joined, the empty text when there are none
RECURSIVE JoinText(_)
JoinText(parts) ==
    IF Len(parts) = 0 THEN <<>>
    ELSE (IF parts[1].inline THEN <<>> ELSE parts[1].text)
         \o JoinText(Tail(parts))

ResponseText(resp) ==
    IF HasPartsArray(resp)
    THEN JoinText(resp.candidates[1][1].content[1].parts[1])
    ELSE <<>>

TextBlock(text) == [type |-> "text", text |-> text]

Text(head, paths, outcomes, body) ==
    [head |-> head, paths |-> paths, outcomes |-> outcomes, body |-> body]

SuccessPayload(text) == [isError |-> FALSE, content |-> <<TextBlock(text)>>]

ErrorPayload(msg) ==
    [isError |-> TRUE,
     content |-> <<TextBlock(Text("Error: ", <<>>, <<>>, msg))>>]

Outcome(success, prompt, filepath, error) ==
    [success |-> success, prompt |-> prompt, filepath |-> filepath,
     error |-> error]

(***************************************************************************)
(* One tool call in progress.  pc is the await the handler is parked at:   *)
(*   "idle"  not received yet        "read"   fs.readFile pending          *)
(*   "model" generateContent pending "mkdir"  fs.mkdir pending             *)
(*   "write" fs.writeFile pending    "join"   Promise.all pending          *)
(*   "done"  the call-tool handler has returned (or thrown)                *)
(* sent, got, reads, mkdirs, writes and wrote record what the call did.    *)
(***************************************************************************)
NewCall ==
    [pc |-> "idle", name |-> "", args |-> NoArgs, imgs |-> <<>>,
     sent |-> <<>>, got |-> <<>>, i |-> 0, cur |-> None, results |-> <<>>,
     items |-> <<>>, reply |-> None, escaped |-> FALSE,
     reads |-> 0, mkdirs |-> 0, writes |-> 0, wrote |-> {}]

\* the call-tool handler returns the handler's payload
Return(h, payload) == [h EXCEPT !.pc = "done", !.reply = Some(payload)]

\* a dispatcher without the catch clause: the exception leaves the handler
ThrowEscapes(h, msg) == [h EXCEPT !.pc = "done", !.escaped = TRUE]

\* the catch clause of the call-tool handler
Throw(h, msg) == [h EXCEPT !.pc = "done", !.reply = Some(ErrorPayload(msg))]

IssueCall(h, req) == [h EXCEPT !.sent = Append(@, req), !.pc = "model"]

IssueRead(h) == [h EXCEPT !.pc = "read", !.reads = @ + 1]

ApiError == <<"fetch failed">>
ReadError == <<"ENOENT: no such file or directory">>
MkdirError == <<"EACCES: permission denied, mkdir">>
WriteError == <<"ENOSPC: no space left on device, write">>

(***************************************************************************)
(* Image resolver.                                                         *)
(***************************************************************************)
ResolverMime(name, path) ==
    LET ext == ToLowerCase(ExtName(path)) IN
    IF name = "generate_variations" THEN VariationsMimeFromExt(ext)
    ELSE IF name = "compare_images" THEN CompareMime(ext)
    ELSE MimeFromExt(ext)

\* the path of the pending fs.readFile
ReadPath(h) ==
    IF h.name = "compare_images"
    THEN (IF h.i = 1 THEN h.args.image1Path[1] ELSE h.args.image2Path[1])
    ELSE IF h.name = "multi_image_edit"
    THEN h.args.images[1][h.i].imagePath[1]
    ELSE h.args.imagePath[1]

\* the image parts spread in reverse order
EditRequestImagesReversed(h) ==
    Request(ImageModel,
            <<TextPart(<<h.args.prompt[1]>>)>>
            \o [j \in 1..Len(h.imgs) |-> h.imgs[Len(h.imgs) + 1 - j]],
            ImageGenerationConfig(h.args.config))

\* parts: [{ text: prompt }, imagePart] or [{ text: prompt }, ...imageParts]
EditRequest(h) ==
    Request(ImageModel, <<TextPart(<<h.args.prompt[1]>>)>> \o h.imgs,
            ImageGenerationConfig(h.args.config))

AnalyzeRequest(h) ==
    Request(TextModel, <<TextPart(<<h.args.prompt[1]>>)>> \o h.imgs,
            AnalysisGenerationConfig(h.args.config))

CompareRequest(h) ==
    Request(TextModel,
            <<TextPart(<<comparePrompts[h.args.compareType[1]]>>)>> \o h.imgs,
            None)

\* iteration k (1-based) of for (let i = 0; i < count; i++)
VariationRuns(h, k) == (k - 1) * Scale < h.args.count[1]

VariationRequest(h, k) ==
    Request(ImageModel,
            <<TextPart(<<variationPrompts[h.args.variationStrength[1]],
                         " (variation ", ToString(k), " of ">>
                       \o NumText(h.args.count[1]) \o <<")">>)>> \o h.imgs,
            VariationsGenerationConfig(h.args.config,
                                       h.args.variationStrength[1]))

VariationsReport(results) ==
    SuccessPayload(Text("Generated variations", results, <<>>,
                        <<ToString(Len(results))>>))

\* a loop bounded by i < count - 1: the last variation is never reached
VariationLoopStopsEarly(h, k) ==
    IF k * Scale < h.args.count[1]
    THEN IssueCall([h EXCEPT !.i = k, !.cur = None], VariationRequest(h, k))
    ELSE Return([h EXCEPT !.cur = None], VariationsReport(h.results))

\* the head of the variation loop: issue call k or leave the loop
VariationLoop(h, k) ==
    IF VariationRuns(h, k)
    THEN IssueCall([h EXCEPT !.i = k, !.cur = None], VariationRequest(h, k))
    ELSE Return([h EXCEPT !.cur = None], VariationsReport(h.results))

\* multi_image_edit: resolve images from index h.i on, up to the next await
RECURSIVE ResolveImages(_)
ResolveImages(h) ==
    IF h.i > Len(h.args.images[1])
    THEN IssueCall(h, EditRequest(h))
    ELSE LET image == h.args.images[1][h.i] IN
         IF Truthy(image.imageData)
         THEN ResolveImages([h EXCEPT
                  !.imgs = Append(@, InlinePart(image.imageData[1], "image/png")),
                  !.i = @ + 1])
         ELSE IF Truthy(image.imagePath)
         THEN IssueRead(h)
         ELSE Throw(h, <<"Image ", ToString(h.i),
                         " must have either imageData or imagePath">>)

\* the handler continues once image part `part` is resolved
AfterResolved(h, part) ==
    LET g == [h EXCEPT !.imgs = Append(@, part)] IN
    CASE h.name = "edit_image" -> IssueCall(g, EditRequest(g))
      [] h.name = "analyze_image" -> IssueCall(g, AnalyzeRequest(g))
      [] h.name = "generate_variations" -> VariationLoop(g, 1)
      [] h.name = "multi_image_edit" -> ResolveImages([g EXCEPT !.i = @ + 1])
      [] h.name = "compare_images" ->
            IF h.i = 1 THEN IssueRead([g EXCEPT !.i = 2])
            ELSE IssueCall(g, CompareRequest(g))

\* a resolver that looks at the path first
ResolveImagePathFirst(h) ==
    IF Truthy(h.args.imagePath)
    THEN IssueRead(h)
    ELSE IF Truthy(h.args.imageData)
    THEN AfterResolved(h, InlinePart(h.args.imageData[1], "image/png"))
    ELSE Throw(h, <<"Either imageData or imagePath must be provided">>)

\* if (imageData) ... else if (imagePath) ... else throw
ResolveImage(h) ==
    IF Truthy(h.args.imageData)
    THEN AfterResolved(h, InlinePart(h.args.imageData[1], "image/png"))
    ELSE IF Truthy(h.args.imagePath)
    THEN IssueRead(h)
    ELSE Throw(h, <<"Either imageData or imagePath must be provided">>)

(***************************************************************************)
(* Requests and reports of the image-producing handlers.                   *)
(***************************************************************************)
GenerateRequest(h) ==
    Request(ImageModel, <<TextPart(<<h.args.prompt[1]>>)>>,
            ImageGenerationConfig(h.args.config))

\* the customization first, the template after it
FullPromptCustomizationFirst(h) ==
    <<h.args.customization[1], ". ",
      server.promptTemplates[h.args.template[1]]>>

\* `${templatePrompt}. ${customization}`
FullPrompt(h) ==
    <<server.promptTemplates[h.args.template[1]], ". ",
      h.args.customization[1]>>

TemplateRequest(h) ==
    Request(ImageModel, <<TextPart(FullPrompt(h))>>,
            ImageGenerationConfig(h.args.config))

BatchRequest(h, k) ==
    Request(ImageModel, <<TextPart(<<h.args.prompts[1][k]>>)>>,
            ImageGenerationConfig(h.args.config))

CountOutcomes(results, success) ==
    Cardinality({k \in 1..Len(results) : results[k].success = success})

BatchReport(results) ==
    SuccessPayload(Text("Batch generation completed", <<>>, results,
                        <<ToString(CountOutcomes(results, TRUE)), " successful, ",
                          ToString(CountOutcomes(results, FALSE)), " failed">>))

\* the head of the sequential loop: issue call k or leave the loop
BatchLoop(h, k) ==
    IF k <= Len(h.args.prompts[1])
    THEN IssueCall([h EXCEPT !.i = k, !.cur = None], BatchRequest(h, k))
    ELSE Return([h EXCEPT !.cur = None], BatchReport(h.results))

NewItem == [pc |-> "model", cur |-> None, outcome |-> None]

\* a pool of one: only the first mapper has issued its call
BatchParallelStartPooled(h) ==
    [h EXCEPT !.sent = <<BatchRequest(h, 1)>>,
              !.got = [k \in 1..Len(h.args.prompts[1]) |-> None],
              !.items = [k \in 1..Len(h.args.prompts[1]) |-> NewItem],
              !.pc = "join"]

\* prompts.map(async ...): every mapper runs up to its generateContent
BatchParallelStart(h) ==
    [h EXCEPT !.sent = [k \in 1..Len(h.args.prompts[1]) |-> BatchRequest(h, k)],
              !.got = [k \in 1..Len(h.args.prompts[1]) |-> None],
              !.items = [k \in 1..Len(h.args.prompts[1]) |-> NewItem],
              !.pc = "join"]

\* the mappers' results collected last promise first
PromiseAllReversed(items) ==
    [k \in 1..Len(items) |-> items[Len(items) + 1 - k].outcome[1]]

\* Promise.all: the mappers' results in the order of the promises
PromiseAll(items) == [k \in 1..Len(items) |-> items[k].outcome[1]]

\* results.push(...await Promise.all(promises)) and the report
BatchJoin(h) ==
    IF \A k \in 1..Len(h.items) : h.items[k].pc = "done"
    THEN Return([h EXCEPT !.results = PromiseAll(h.items)],
                BatchReport(PromiseAll(h.items)))
    ELSE h

FilePrefix(h) ==
    CASE h.name = "generate_image" -> "generated-image"
      [] h.name = "edit_image" -> "edited-image"
      [] h.name = "multi_image_edit" -> "multi-image-result"
      [] h.name = "batch_generate" -> "batch"
      [] h.name = "generate_variations" -> "variation"
      [] h.name = "generate_with_template" -> h.args.template[1]

FileExtension(h, mimeType) ==
    IF h.name \in {"generate_image", "edit_image", "multi_image_edit"}
    THEN ExtensionFromMime(mimeType)
    ELSE FixedPngExtension(mimeType)

EmptyMessage(h) ==
    CASE h.name = "edit_image" -> "No edited image was generated"
      [] h.name = "multi_image_edit" -> "No multi-image result was generated"
      [] OTHER -> "No image was generated"

SavedMessage(h) ==
    CASE h.name = "generate_image" ->
            "Image generated successfully and saved to: "
      [] h.name = "edit_image" ->
            "Image edited successfully and saved to: "
      [] h.name = "multi_image_edit" ->
            "Multi-image processing completed successfully and saved to: "
      [] OTHER -> "Generated style image: "

SavedReport(h) ==
    SuccessPayload(Text(SavedMessage(h), <<h.cur[1].filepath>>, <<>>,
        IF h.name = "generate_with_template"
        THEN <<h.args.template[1], "Prompt used: ">> \o h.sent[1].parts[1].text
        ELSE <<>>))

\* a filename without the item's index
ArtifactWithoutIndex(h, part, index, now) ==
    [data |-> part.data, mimeType |-> part.mimeType,
     filepath |-> FilePath(h.args.outputDir[1], FilePrefix(h), 0, now,
                           FileExtension(h, part.mimeType))]

\* the image to write: its payload, the timestamped path, then fs.mkdir
Artifact(h, part, index, now) ==
    [data |-> part.data, mimeType |-> part.mimeType,
     filepath |-> FilePath(h.args.outputDir[1], FilePrefix(h), index, now,
                           FileExtension(h, part.mimeType))]

StartWrite(h, part, index, now) ==
    [h EXCEPT !.cur = Some(Artifact(h, part, index, now)),
              !.pc = "mkdir", !.mkdirs = @ + 1]

Push(h, r) == [h EXCEPT !.results = Append(@, r)]

(***************************************************************************)
(* The handlers, from one await to the next.                               *)
(***************************************************************************)
\* from schema.parse to the first await
StartHandler(h) ==
    CASE h.name = "generate_image" -> IssueCall(h, GenerateRequest(h))
      [] h.name \in {"edit_image", "analyze_image", "generate_variations"} ->
            ResolveImage(h)
      [] h.name = "multi_image_edit" -> ResolveImages([h EXCEPT !.i = 1])
      [] h.name = "batch_generate" ->
            IF h.args.parallel[1] THEN BatchParallelStart(h)
            ELSE BatchLoop(h, 1)
      [] h.name = "generate_with_template" -> IssueCall(h, TemplateRequest(h))
      [] h.name = "compare_images" -> IssueRead([h EXCEPT !.i = 1])

\* the call-tool handler: switch (name), schema.parse, the handler's start
CallTool(req) ==
    LET h == [NewCall EXCEPT !.name = req.name] IN
    IF req.name \notin ToolNames
    THEN Throw(h, <<"Unknown tool: ", req.name>>)
    ELSE IF ~SchemaAccepts(req.name, req.args)
    THEN Throw(h, <<"ZodError">>)
    ELSE StartHandler([h EXCEPT !.args = ParsedArgs(req.args)])

\* generate_image, edit_image, multi_image_edit, generate_with_template
SingleImageResponse(h, resp, thrown, now) ==
    IF thrown THEN Throw(h, ApiError)
    ELSE LET e == ExtractImage(resp, EmptyMessage(h)) IN
         IF e.tag = "throw" THEN Throw(h, <<e.msg>>)
         ELSE StartWrite(h, e.part, 0, now)

\* analyze_image: result.response.text is a method, hence never falsy
AnalyzeResponse(h, resp, thrown) ==
    IF thrown THEN Throw(h, ApiError)
    ELSE Return(h, SuccessPayload(Text("", <<>>, <<>>, ResponseText(resp))))

CompareResponse(h, resp, thrown) ==
    IF thrown THEN Throw(h, ApiError)
    ELSE Return(h, SuccessPayload(Text("Image Comparison", <<>>, <<>>,
                   <<"(", h.args.compareType[1], "):\n\n">> \o ResponseText(resp))))

\* one iteration of the sequential branch of handleBatchGenerate
BatchSequentialResponse(h, resp, thrown, now) ==
    LET prompt == h.args.prompts[1][h.i] IN
    IF thrown
    THEN BatchLoop(Push(h, Outcome(FALSE, prompt, None, Some(ApiError))), h.i + 1)
    ELSE LET e == ExtractImageOptional(resp) IN
         IF e.tag = "throw"
         THEN BatchLoop(Push(h, Outcome(FALSE, prompt, None, Some(<<e.msg>>))),
                        h.i + 1)
         ELSE IF e.tag = "ok"
         THEN StartWrite(h, e.part, h.i, now)
         ELSE IF HasPartsArray(resp)
         THEN BatchLoop(Push(h, Outcome(FALSE, prompt, None,
                                        Some(<<"No image generated">>))), h.i + 1)
         ELSE BatchLoop(h, h.i + 1)

\* a variation loop without the try/catch: a rejected call ends the handler
VariationResponseAborting(h, resp, thrown, now) ==
    IF thrown THEN Throw(h, ApiError)
    ELSE LET e == ExtractImageOptional(resp) IN
         IF e.tag = "ok" THEN StartWrite(h, e.part, h.i, now)
         ELSE VariationLoop(h, h.i + 1)

\* one iteration of the loop of handleGenerateVariations
VariationResponse(h, resp, thrown, now) ==
    IF thrown THEN VariationLoop(h, h.i + 1)
    ELSE LET e == ExtractImageOptional(resp) IN
         IF e.tag = "ok" THEN StartWrite(h, e.part, h.i, now)
         ELSE VariationLoop(h, h.i + 1)

\* the handler continues when generateContent settles
OnResponse(h, resp, thrown, now) ==
    LET g == [h EXCEPT !.got = Append(@, Some([thrown |-> thrown, resp |-> resp]))]
    IN  CASE h.name = "analyze_image" -> AnalyzeResponse(g, resp, thrown)
          [] h.name = "compare_images" -> CompareResponse(g, resp, thrown)
          [] h.name = "batch_generate" ->
                BatchSequentialResponse(g, resp, thrown, now)
          [] h.name = "generate_variations" ->
                VariationResponse(g, resp, thrown, now)
          [] OTHER -> SingleImageResponse(g, resp, thrown, now)

\* the handler continues when fs.writeFile has written the file
OnWritten(h) ==
    LET g == [h EXCEPT !.wrote = @ \cup {h.cur[1]}]
    IN  CASE h.name = "batch_generate" ->
                BatchLoop(Push(g, Outcome(TRUE, h.args.prompts[1][h.i],
                                          Some(h.cur[1].filepath), None)),
                          h.i + 1)
          [] h.name = "generate_variations" ->
                VariationLoop(Push(g, h.cur[1].filepath), h.i + 1)
          [] OTHER -> Return(g, SavedReport(g))

\* the handler continues when fs.mkdir or fs.writeFile rejects
OnWriteFailed(h, msg) ==
    CASE h.name = "batch_generate" ->
            BatchLoop(Push(h, Outcome(FALSE, h.args.prompts[1][h.i], None,
                                      Some(msg))), h.i + 1)
      [] h.name = "generate_variations" -> VariationLoop(h, h.i + 1)
      [] OTHER -> Throw(h, msg)

\* one mapper of the parallel branch, when its generateContent settles
ItemResponse(h, k, resp, thrown, now) ==
    LET prompt == h.args.prompts[1][k]
        failed(msg) == [pc |-> "done", cur |-> None,
                        outcome |-> Some(Outcome(FALSE, prompt, None, Some(msg)))]
    IN  IF thrown THEN failed(ApiError)
        ELSE LET e == ExtractImageOptional(resp) IN
             IF e.tag = "throw" THEN failed(<<e.msg>>)
             ELSE IF e.tag = "ok"
             THEN [pc |-> "mkdir", cur |-> Some(Artifact(h, e.part, k, now)),
                   outcome |-> None]
             ELSE failed(<<"No image generated">>)

ItemWritten(h, k) ==
    [pc |-> "done", cur |-> h.items[k].cur,
     outcome |-> Some(Outcome(TRUE, h.args.prompts[1][k],
                              Some(h.items[k].cur[1].filepath), None))]

ItemWriteFailed(h, k, msg) ==
    [pc |-> "done", cur |-> h.items[k].cur,
     outcome |-> Some(Outcome(FALSE, h.args.prompts[1][k], None, Some(msg)))]

(***************************************************************************)
(* The environment: files on disk, model responses, inbound requests.      *)
(***************************************************************************)
PJpgUpper == <<"a", ".", "J", "P", "G">>
PJpeg == <<"b", ".", "j", "p", "e", "g">>
PGif == <<"c", ".", "g", "i", "f">>
PWebp == <<"d", ".", "W", "e", "b", "p">>
PPng == <<"e", ".", "p", "n", "g">>
PBmp == <<"f", ".", "b", "m", "p">>
PNoExt == <<"g", ".", "j", "p", "g", "/", "h">>
PMissing == <<"m", ".", "p", "n", "g">>

ExistingPaths == {PJpgUpper, PJpeg, PGif, PWebp, PPng, PBmp, PNoExt}

\* the input files present on disk and their bytes
InputDisk ==
    [p \in ExistingPaths |->
        CASE p = PJpgUpper -> <<255>>
          [] p = PJpeg -> <<1, 2>>
          [] p = PGif -> <<71, 73, 70>>
          [] OTHER -> <<137, 80, 78, 71>>]

D1 == <<19, 22, 5, 46>>
D2 == <<16, 17, Pad, Pad>>
D3 == <<1, 2, 3>>

Txt == TextPart(<<"ok">>)
ImgPng == InlinePart(D1, "image/png")
ImgJpeg == InlinePart(D2, "image/jpeg")
ImgWebp == InlinePart(D3, "image/webp")

Resp(cands) == [candidates |-> Some(cands)]
Cand(parts) == [content |-> Some([parts |-> Some(parts)])]

RespNoCandidates == [candidates |-> None]
RespEmpty == Resp(<<>>)
RespNoContent == Resp(<<[content |-> None]>>)
RespNoParts == Resp(<<[content |-> Some([parts |-> None])]>>)
RespEmptyParts == Resp(<<Cand(<<>>)>>)
RespText == Resp(<<Cand(<<Txt>>)>>)
RespPng == Resp(<<Cand(<<ImgPng>>)>>)
RespTextJpeg == Resp(<<Cand(<<Txt, ImgJpeg>>)>>)
RespTwoImages == Resp(<<Cand(<<ImgWebp, ImgPng>>)>>)
RespSecondCandidate == Resp(<<Cand(<<Txt>>), Cand(<<ImgPng>>)>>)
RespTwoCandidates == Resp(<<Cand(<<ImgJpeg, Txt>>), Cand(<<ImgPng>>)>>)

\* what a single generateContent may return
Responses ==
    {RespNoCandidates, RespEmpty, RespNoContent, RespNoParts, RespEmptyParts,
     RespText, RespPng, RespTextJpeg, RespTwoImages, RespSecondCandidate,
     RespTwoCandidates}

\* what the generateContent of one batch item or variation may return
ItemResponses == {RespNoCandidates, RespText, RespPng, RespTextJpeg}

ResponsesFor(name) ==
    IF name \in {"batch_generate", "generate_variations"}
    THEN ItemResponses ELSE Responses

Req(name, a) == [name |-> name, args |-> a @@ NoArgs]

CfgTemp0 == [NoConfig EXCEPT !.temperature = Some(0)]
CfgFull ==
    [temperature |-> Some(15), topP |-> Some(9), topK |-> Some(400),
     maxOutputTokens |-> Some(10240)]
ValidConfigs == {None, Some(NoConfig), Some(CfgTemp0), Some(CfgFull)}
\* maxOutputTokens 0, -1 and 0.5
TokenConfigs ==
    {Some([NoConfig EXCEPT !.maxOutputTokens = Some(0)]),
     Some([NoConfig EXCEPT !.maxOutputTokens = Some(-10)]),
     Some([NoConfig EXCEPT !.maxOutputTokens = Some(5)])}
InvalidConfigs ==
    {Some([NoConfig EXCEPT !.temperature = Some(21)]),
     Some([NoConfig EXCEPT !.temperature = Some(-1)]),
     Some([NoConfig EXCEPT !.topP = Some(11)]),
     Some([NoConfig EXCEPT !.topK = Some(5)]),
     Some([NoConfig EXCEPT !.topK = Some(401)])}

OutputDirs == {None, Some("out")}

GenerateImageRequests ==
    {Req("generate_image", [prompt |-> Some("A"), outputDir |-> d, config |-> c]) :
        d \in OutputDirs, c \in ValidConfigs}
    \cup {Req("generate_image", [prompt |-> Some("A"), config |-> c]) :
        c \in InvalidConfigs \cup TokenConfigs}
    \cup {Req("generate_image", [outputDir |-> Some("out")])}

\* (imageData, imagePath) pairs that satisfy the refinement, and that do not
ValidImageRefs ==
    {[imageData |-> Some(D1), imagePath |-> None],
     [imageData |-> Some(D1), imagePath |-> Some(PJpeg)],
     [imageData |-> Some(<<>>), imagePath |-> Some(PJpgUpper)],
     [imageData |-> None, imagePath |-> Some(PMissing)]}
    \cup {[imageData |-> None, imagePath |-> Some(p)] : p \in ExistingPaths}
InvalidImageRefs ==
    {[imageData |-> None, imagePath |-> None],
     [imageData |-> Some(<<>>), imagePath |-> None],
     [imageData |-> Some(<<>>), imagePath |-> Some(<<>>)]}

SingleImageRequests(name) ==
    {Req(name, r @@ [prompt |-> Some("A")]) :
        r \in ValidImageRefs \cup InvalidImageRefs}
    \cup {Req(name, [prompt |-> Some("A"), imageData |-> Some(D1), config |-> c]) :
        c \in {Some(CfgFull)} \cup InvalidConfigs}
    \cup {Req(name, [imageData |-> Some(D1)])}

MultiImageRefs ==
    {[imageData |-> Some(D1), imagePath |-> None, description |-> None],
     [imageData |-> Some(D1), imagePath |-> Some(PJpeg), description |-> None],
     [imageData |-> None, imagePath |-> Some(PJpgUpper),
      description |-> Some("style")],
     [imageData |-> None, imagePath |-> Some(PGif), description |-> None],
     [imageData |-> None, imagePath |-> Some(PMissing), description |-> None],
     [imageData |-> None, imagePath |-> None, description |-> None]}

RECURSIVE SeqsUpTo(_, _)
SeqsUpTo(S, n) ==
    IF n = 0 THEN {<<>>}
    ELSE LET shorter == SeqsUpTo(S, n - 1)
         IN  shorter \cup {Append(q, x) : q \in shorter, x \in S}

MultiImageEditRequests ==
    {Req("multi_image_edit", [prompt |-> Some("A"), images |-> Some(imgs)]) :
        imgs \in SeqsUpTo(MultiImageRefs, MaxImages)}
    \cup {Req("multi_image_edit",
              [prompt |-> Some("A"), config |-> c,
               images |-> Some(<<[imageData |-> Some(D1), imagePath |-> None,
                                  description |-> None]>>)]) :
        c \in {Some(CfgTemp0)} \cup InvalidConfigs}
    \cup {Req("multi_image_edit", [prompt |-> Some("A")])}

PromptNames == <<"A", "B", "C", "D", "E", "F">>

BatchGenerateRequests ==
    {Req("batch_generate",
         [prompts |-> Some(SubSeq(PromptNames, 1, n)), parallel |-> par]) :
        n \in 0..MaxPrompts, par \in {None, Some(FALSE), Some(TRUE)}}
    \cup {Req("batch_generate",
              [prompts |-> Some(<<"A">>), config |-> c, outputDir |-> Some("out")]) :
        c \in {Some(CfgFull)} \cup InvalidConfigs}
    \cup {Req("batch_generate", [parallel |-> Some(TRUE)])}

GenerateVariationsRequests ==
    {Req("generate_variations", [imageData |-> Some(D1), count |-> n]) :
        n \in {None, Some(0), Some(9), Some(10), Some(20), Some(25), Some(50),
               Some(51), Some(60)}}
    \cup {Req("generate_variations",
              [imageData |-> Some(D1), count |-> Some(10),
               variationStrength |-> s, config |-> c]) :
        s \in {None, Some("subtle"), Some("moderate"), Some("strong")},
        c \in ValidConfigs}
    \cup {Req("generate_variations", r @@ [count |-> Some(10)]) :
        r \in ValidImageRefs \cup InvalidImageRefs}
    \cup {Req("generate_variations",
              [imageData |-> Some(D1), count |-> Some(10), config |-> c]) :
        c \in InvalidConfigs}
    \cup {Req("generate_variations",
              [imageData |-> Some(D1), variationStrength |-> Some("wild")]),
          Req("generate_variations",
              [imageData |-> Some(D1), count |-> Some(20),
               variationStrength |-> Some("strong"), config |-> Some(CfgTemp0)])}

TemplateRequests ==
    {Req("generate_with_template",
         [template |-> Some(t), customization |-> Some(cu)]) :
        t \in TemplateNames \cup {"sketch"}, cu \in {"for a coffee shop", ""}}
    \cup {Req("generate_with_template",
              [template |-> Some("logo"), customization |-> Some("x"),
               outputDir |-> Some("out"), config |-> c]) :
        c \in {Some(CfgFull)} \cup InvalidConfigs}
    \cup {Req("generate_with_template", [template |-> Some("logo")]),
          Req("generate_with_template", [customization |-> Some("x")])}

CompareImagesRequests ==
    {Req("compare_images",
         [image1Path |-> Some(p1), image2Path |-> Some(p2), compareType |-> t]) :
        p1 \in {PJpgUpper, PPng, PMissing}, p2 \in {PJpeg, PBmp, PMissing},
        t \in {None, Some("differences"), Some("similarities")}}
    \cup {Req("compare_images",
              [image1Path |-> Some(PPng), image2Path |-> Some(PPng),
               compareType |-> Some("bogus")]),
          Req("compare_images", [image1Path |-> Some(PPng)]),
          Req("compare_images", [image2Path |-> Some(PPng)])}

UnknownToolRequests == {Req("resize_image", [prompt |-> Some("A")])}

Requests ==
    GenerateImageRequests \cup SingleImageRequests("edit_image")
    \cup SingleImageRequests("analyze_image") \cup MultiImageEditRequests
    \cup BatchGenerateRequests \cup GenerateVariationsRequests
    \cup TemplateRequests \cup CompareImagesRequests \cup UnknownToolRequests

(***************************************************************************)
(* Initial state and actions.                                              *)
(***************************************************************************)
\* one inbound call
Init ==
    /\ inbox \in {[c \in Calls |-> IF c = 1 THEN Some(r) ELSE None] :
                     r \in Requests}
    /\ calls = [c \in Calls |-> NewCall]
    /\ files = <<>>
    /\ dirs = {}
    /\ clock = 0
    /\ server = NewServer

\* a template handler that stores the customization in the template table
ReceiveStoringPrompt(c) ==
    /\ Present(inbox[c])
    /\ calls[c].pc = "idle"
    /\ calls' = [calls EXCEPT ![c] = CallTool(inbox[c][1])]
    /\ server' =
          IF inbox[c][1].name = "generate_with_template"
             /\ SchemaAccepts(inbox[c][1].name, inbox[c][1].args)
          THEN [server EXCEPT !.promptTemplates[inbox[c][1].args.template[1]] =
                                  inbox[c][1].args.customization[1]]
          ELSE server
    /\ UNCHANGED <<inbox, files, dirs, clock>>

\* the transport delivers a call; the handler runs to its first await
Receive(c) ==
    /\ Present(inbox[c])
    /\ calls[c].pc = "idle"
    /\ calls' = [calls EXCEPT ![c] = CallTool(inbox[c][1])]
    /\ UNCHANGED <<inbox, server, files, dirs, clock>>

\* fs.readFile settles
ReadDone(c) ==
    /\ calls[c].pc = "read"
    /\ LET h == calls[c]
           path == ReadPath(h)
       IN  calls' = [calls EXCEPT ![c] =
               IF path \in DOMAIN InputDisk
               THEN AfterResolved(h, InlinePart(Base64Encode(InputDisk[path]),
                                                ResolverMime(h.name, path)))
               ELSE Throw(h, ReadError)]
    /\ UNCHANGED <<inbox, server, files, dirs, clock>>

\* generateContent settles: a response, or a rejection
ModelDone(c) ==
    /\ calls[c].pc = "model"
    /\ \/ \E resp \in ResponsesFor(calls[c].name) :
             calls' = [calls EXCEPT ![c] = OnResponse(@, resp, FALSE, clock)]
       \/ calls' = [calls EXCEPT ![c] =
                       OnResponse(@, RespNoCandidates, TRUE, clock)]
    /\ UNCHANGED <<inbox, server, files, dirs, clock>>

\* fs.mkdir(outputDir, {recursive: true}) settles
MkdirDone(c) ==
    /\ calls[c].pc = "mkdir"
    /\ \/ /\ dirs' = dirs \cup {calls[c].args.outputDir[1]}
          /\ calls' = [calls EXCEPT ![c].pc = "write", ![c].writes = @ + 1]
       \/ /\ calls' = [calls EXCEPT ![c] = OnWriteFailed(@, MkdirError)]
          /\ UNCHANGED dirs
    /\ UNCHANGED <<inbox, server, files, clock>>

\* a writeFile that leaves an existing file as it is
WriteDoneKeepingExisting(c) ==
    /\ calls[c].pc = "write"
    /\ \/ /\ files' = files @@ (calls[c].cur[1].filepath :>
                                    FileBytes(calls[c].cur[1].data))
          /\ calls' = [calls EXCEPT ![c] = OnWritten(@)]
       \/ /\ calls' = [calls EXCEPT ![c] = OnWriteFailed(@, WriteError)]
          /\ UNCHANGED files
    /\ UNCHANGED <<inbox, server, dirs, clock>>

\* fs.writeFile(filepath, Buffer.from(data, 'base64')) settles
WriteDone(c) ==
    /\ calls[c].pc = "write"
    /\ \/ /\ files' = (calls[c].cur[1].filepath :>
                           FileBytes(calls[c].cur[1].data)) @@ files
          /\ calls' = [calls EXCEPT ![c] = OnWritten(@)]
       \/ /\ calls' = [calls EXCEPT ![c] = OnWriteFailed(@, WriteError)]
          /\ UNCHANGED files
    /\ UNCHANGED <<inbox, server, dirs, clock>>

\* parallel branch: the generateContent of mapper k settles
ItemModelDone(c, k) ==
    /\ calls[c].pc = "join"
    /\ calls[c].items[k].pc = "model"
    /\ \E thrown \in BOOLEAN :
         \E resp \in IF thrown THEN {RespNoCandidates} ELSE ItemResponses :
            LET h == calls[c]
                g == [h EXCEPT
                        !.got[k] = Some([thrown |-> thrown, resp |-> resp]),
                        !.items[k] = ItemResponse(h, k, resp, thrown, clock),
                        !.mkdirs = IF ItemResponse(h, k, resp, thrown, clock).pc
                                      = "mkdir" THEN @ + 1 ELSE @]
            IN  calls' = [calls EXCEPT ![c] = BatchJoin(g)]
    /\ UNCHANGED <<inbox, server, files, dirs, clock>>

\* parallel branch: the fs.mkdir of mapper k settles
ItemMkdirDone(c, k) ==
    /\ calls[c].pc = "join"
    /\ calls[c].items[k].pc = "mkdir"
    /\ \/ /\ dirs' = dirs \cup {calls[c].args.outputDir[1]}
          /\ calls' = [calls EXCEPT ![c].items[k].pc = "write",
                                    ![c].writes = @ + 1]
       \/ /\ calls' = [calls EXCEPT ![c] =
                 BatchJoin([@ EXCEPT !.items[k] =
                     ItemWriteFailed(calls[c], k, MkdirError)])]
          /\ UNCHANGED dirs
    /\ UNCHANGED <<inbox, server, files, clock>>

\* parallel branch: the fs.writeFile of mapper k settles
ItemWriteDone(c, k) ==
    /\ calls[c].pc = "join"
    /\ calls[c].items[k].pc = "write"
    /\ \/ /\ files' = (calls[c].items[k].cur[1].filepath :>
                           FileBytes(calls[c].items[k].cur[1].data)) @@ files
          /\ calls' = [calls EXCEPT ![c] =
                 BatchJoin([@ EXCEPT
                     !.items[k] = ItemWritten(calls[c], k),
                     !.wrote = @ \cup {calls[c].items[k].cur[1]}])]
       \/ /\ calls' = [calls EXCEPT ![c] =
                 BatchJoin([@ EXCEPT !.items[k] =
                     ItemWriteFailed(calls[c], k, WriteError)])]
          /\ UNCHANGED files
    /\ UNCHANGED <<inbox, server, dirs, clock>>

\* some handler has yet to read the clock (new Date() follows generateContent)
ClockInUse ==
    \E c \in Calls :
        \/ Present(inbox[c]) /\ calls[c].pc \in {"idle", "read", "model"}
        \/ calls[c].pc = "join"
              /\ \E k \in 1..Len(calls[c].items) : calls[c].items[k].pc = "model"
        \/ calls[c].pc \in {"mkdir", "write"}
              /\ calls[c].name \in {"batch_generate", "generate_variations"}

\* the clock advances by one millisecond
Tick ==
    /\ clock < MaxClock
    /\ ClockInUse
    /\ clock' = clock + 1
    /\ UNCHANGED <<inbox, server, calls, files, dirs>>

Next ==
    \/ \E c \in Calls : Receive(c)
    \/ \E c \in Calls : ReadDone(c)
    \/ \E c \in Calls : ModelDone(c)
    \/ \E c \in Calls : MkdirDone(c)
    \/ \E c \in Calls : WriteDone(c)
    \/ \E c \in Calls : \E k \in 1..Len(calls[c].items) : ItemModelDone(c, k)
    \/ \E c \in Calls : \E k \in 1..Len(calls[c].items) : ItemMkdirDone(c, k)
    \/ \E c \in Calls : \E k \in 1..Len(calls[c].items) : ItemWriteDone(c, k)
    \/ Tick

Spec == Init /\ [][Next]_vars

(***************************************************************************)
(* Two calls that may overlap: the transport delivers both, each handler   *)
(* runs from await to await, in any interleaving.                          *)
(***************************************************************************)
OverlapGenA == Req("generate_image", [prompt |-> Some("A")])
OverlapGenB == Req("generate_image", [prompt |-> Some("B")])
OverlapGenOut ==
    Req("generate_image", [prompt |-> Some("B"), outputDir |-> Some("out")])
OverlapEdit ==
    Req("edit_image", [prompt |-> Some("A"), imagePath |-> Some(PJpgUpper)])
OverlapBatchSeq == Req("batch_generate", [prompts |-> Some(<<"A">>)])
OverlapBatchPar ==
    Req("batch_generate", [prompts |-> Some(<<"A", "B">>),
                           parallel |-> Some(TRUE)])
OverlapVariations ==
    Req("generate_variations", [imageData |-> Some(D1), count |-> Some(10)])
OverlapTemplateFood ==
    Req("generate_with_template",
        [template |-> Some("food"), customization |-> Some("for a coffee shop")])
OverlapTemplate ==
    Req("generate_with_template",
        [template |-> Some("logo"), customization |-> Some("for a coffee shop")])

\* the pairs of calls delivered together
OverlapPairs ==
    {<<OverlapGenA, OverlapGenB>>, <<OverlapGenA, OverlapGenOut>>,
     <<OverlapEdit, OverlapGenA>>, <<OverlapBatchSeq, OverlapBatchPar>>,
     <<OverlapVariations, OverlapVariations>>,
     <<OverlapTemplate, OverlapTemplate>>,
     <<OverlapTemplate, OverlapTemplateFood>>}

InitOverlap ==
    /\ inbox \in {[c \in Calls |-> Some(pair[c])] : pair \in OverlapPairs}
    /\ calls = [c \in Calls |-> NewCall]
    /\ files = <<>>
    /\ dirs = {}
    /\ clock = 0
    /\ server = NewServer

SpecOverlap == InitOverlap /\ [][Next]_vars

(***************************************************************************)
(* Properties.                                                             *)
(***************************************************************************)
Received(c) == Present(inbox[c]) /\ calls[c].pc # "idle"
Done(c) == calls[c].pc = "done"
Replied(c) == Done(c) /\ Present(calls[c].reply)
IsErrorReply(c) == Replied(c) /\ calls[c].reply[1].isError
IsSuccessReply(c) == Replied(c) /\ ~calls[c].reply[1].isError
ReplyText(c) == calls[c].reply[1].content[1].text

\* number of filesystem operations and model calls the call has started
SideEffects(c) ==
    calls[c].reads + calls[c].mkdirs + calls[c].writes + Len(calls[c].sent)

SinglePayload(p) ==
    /\ p.isError \in BOOLEAN
    /\ Len(p.content) = 1
    /\ p.content[1].type = "text"

\* C1: every tool call, whatever its name, its arguments and whatever fails
\* inside its handler, ends in a success payload or in an error payload with
\* isError = true and a single text block; no exception leaves the call-tool
\* handler.
C1_NoExceptionEscapes ==
    \A c \in Calls :
        /\ ~calls[c].escaped
        /\ Done(c) => Present(calls[c].reply) /\ SinglePayload(calls[c].reply[1])
        /\ Done(c) /\ inbox[c][1].name \notin ToolNames => IsErrorReply(c)

\* a call that failed while writing its file ended in an error payload
C1_Witness ==
    \E c \in Calls :
        IsErrorReply(c) /\ calls[c].writes > 0 /\ ReplyText(c).body = WriteError

\* the schema violations the claim lists, stated on the raw arguments
C2_ConfigOutOfRange(cfg) ==
    Present(cfg) /\
        \/ Present(cfg[1].temperature)
             /\ (cfg[1].temperature[1] < 0 \/ cfg[1].temperature[1] > 20)
        \/ Present(cfg[1].topP) /\ (cfg[1].topP[1] < 0 \/ cfg[1].topP[1] > 10)
        \/ Present(cfg[1].topK) /\ (cfg[1].topK[1] < 10 \/ cfg[1].topK[1] > 400)

C2_NoImage(ref) ==
    /\ (~Present(ref.imageData) \/ ref.imageData[1] = <<>>)
    /\ (~Present(ref.imagePath) \/ ref.imagePath[1] = <<>>)

C2_Violates(req) ==
    LET a == req.args IN
    \/ req.name \in ToolNames \ {"compare_images"} /\ C2_ConfigOutOfRange(a.config)
    \/ req.name \in {"generate_image", "edit_image", "analyze_image",
                     "multi_image_edit"} /\ ~Present(a.prompt)
    \/ req.name \in {"edit_image", "analyze_image", "generate_variations"}
         /\ C2_NoImage(a)
    \/ req.name = "multi_image_edit"
         /\ \/ ~Present(a.images)
            \/ Present(a.images) /\ a.images[1] = <<>>
            \/ Present(a.images)
                 /\ \E k \in 1..Len(a.images[1]) : C2_NoImage(a.images[1][k])
    \/ req.name = "batch_generate"
         /\ (~Present(a.prompts) \/ a.prompts[1] = <<>>)
    \/ req.name = "generate_variations"
         /\ Present(a.count) /\ (a.count[1] < 10 \/ a.count[1] > 50)
    \/ req.name = "generate_with_template"
         /\ (~Present(a.template) \/ ~Present(a.customization))
    \/ req.name = "compare_images"
         /\ (~Present(a.image1Path) \/ ~Present(a.image2Path))

\* C2: a call whose arguments violate its tool's schema fails with an error
\* payload before any filesystem read, directory creation, file write or
\* model call has happened.
C2_ValidationBeforeSideEffects ==
    \A c \in Calls :
        Received(c) /\ C2_Violates(inbox[c][1]) =>
            /\ IsErrorReply(c)
            /\ SideEffects(c) = 0
            /\ files = <<>>
            /\ dirs = {}

\* a multi_image_edit call whose second image has neither data nor path,
\* the first being a readable path, was rejected
C2_Witness ==
    \E c \in Calls :
        /\ IsErrorReply(c)
        /\ inbox[c][1].name = "multi_image_edit"
        /\ Present(inbox[c][1].args.images)
        /\ Len(inbox[c][1].args.images[1]) = 2
        /\ inbox[c][1].args.images[1][1].imagePath = Some(PJpgUpper)
        /\ C2_NoImage(inbox[c][1].args.images[1][2])

IsBatch(c, parallel) ==
    /\ Done(c)
    /\ calls[c].name = "batch_generate"
    /\ Len(calls[c].sent) > 0
    /\ calls[c].args.parallel[1] = parallel

\* the outcomes the batch report lists
Outcomes(c) == ReplyText(c).outcomes

\* C3: batch_generate with parallel = false over N prompts reports exactly N
\* outcomes, the i-th belonging to prompts[i], whatever each item's call does.
C3_SequentialOutcomes ==
    \A c \in Calls :
        IsBatch(c, FALSE) =>
            /\ IsSuccessReply(c)
            /\ Len(Outcomes(c)) = Len(calls[c].args.prompts[1])
            /\ \A k \in 1..Len(Outcomes(c)) :
                  Outcomes(c)[k].prompt = calls[c].args.prompts[1][k]

\* C4: batch_generate with parallel = true over N prompts reports exactly N
\* outcomes, outcome i belonging to prompts[i] (its prompt, its file, the
\* result of its call), for every completion order.
C4_ParallelOutcomesByIndex ==
    \A c \in Calls :
        IsBatch(c, TRUE) =>
            /\ IsSuccessReply(c)
            /\ Len(Outcomes(c)) = Len(calls[c].args.prompts[1])
            /\ \A k \in 1..Len(Outcomes(c)) :
                  /\ Outcomes(c)[k].prompt = calls[c].args.prompts[1][k]
                  /\ Outcomes(c)[k].success =>
                        /\ Outcomes(c)[k].filepath[1].index = k
                        /\ ~calls[c].got[k][1].thrown
                  /\ calls[c].got[k][1].thrown => ~Outcomes(c)[k].success

\* item 2 completed before item 1: its file carries the earlier timestamp
C4_Witness ==
    \E c \in Calls :
        /\ IsBatch(c, TRUE)
        /\ Len(Outcomes(c)) >= 2
        /\ Outcomes(c)[1].success
        /\ Outcomes(c)[2].success
        /\ Outcomes(c)[2].filepath[1].ts < Outcomes(c)[1].filepath[1].ts

\* the first candidate of the response has a content part with inline data
FirstCandidateHasImage(resp) ==
    /\ Present(resp.candidates)
    /\ Len(resp.candidates[1]) > 0
    /\ Present(resp.candidates[1][1].content)
    /\ Present(resp.candidates[1][1].content[1].parts)
    /\ \E k \in 1..Len(resp.candidates[1][1].content[1].parts[1]) :
          resp.candidates[1][1].content[1].parts[1][k].inline

\* the first inline-data part of the first candidate
FirstImage(resp) ==
    LET parts == resp.candidates[1][1].content[1].parts[1]
        first == CHOOSE k \in 1..Len(parts) :
                    parts[k].inline /\ \A j \in 1..(k - 1) : ~parts[j].inline
    IN  parts[first]

\* the call of item k returned an image
ReturnedImage(c, k) ==
    ~calls[c].got[k][1].thrown /\ FirstCandidateHasImage(calls[c].got[k][1].resp)

IsVariations(c) ==
    Done(c) /\ calls[c].name = "generate_variations" /\ Len(calls[c].sent) > 0

Paths(c) == ReplyText(c).paths

Increasing(paths) ==
    \A j \in 1..(Len(paths) - 1) : paths[j].index < paths[j + 1].index

\* the file of item k of a tool's loop is on disk
ItemFileWritten(prefix, k) ==
    \E fp \in DOMAIN files : fp.prefix = prefix /\ fp.index = k

\* C5 as stated: generate_variations, whatever subset of its calls throws,
\* returns a success payload whose paths are exactly those of the variations
\* whose call returned an image, in variation order.
C5_PathsOfReturnedImages ==
    \A c \in Calls :
        IsVariations(c) =>
            /\ IsSuccessReply(c)
            /\ Increasing(Paths(c))
            /\ {Paths(c)[j].index : j \in 1..Len(Paths(c))}
                   = {k \in 1..Len(calls[c].got) : ReturnedImage(c, k)}

\* C5 amended: the paths are exactly those of the variations whose call
\* returned an image and whose file was written, in variation order; a
\* variation whose call threw, returned no image, or whose directory creation
\* or file write failed is skipped; the payload is a success payload.
C5_PathsOfWrittenVariations ==
    \A c \in Calls :
        IsVariations(c) =>
            /\ IsSuccessReply(c)
            /\ Increasing(Paths(c))
            /\ {Paths(c)[j].index : j \in 1..Len(Paths(c))}
                   = {k \in 1..Len(calls[c].got) :
                         ReturnedImage(c, k) /\ ItemFileWritten("variation", k)}
            /\ \A j \in 1..Len(Paths(c)) : Paths(c)[j] \in DOMAIN files

\* the second of three variation calls threw, the first and third are listed
C5_Witness ==
    \E c \in Calls :
        /\ IsVariations(c)
        /\ Len(calls[c].got) = 3
        /\ calls[c].got[2][1].thrown
        /\ Len(Paths(c)) = 2
        /\ Paths(c)[1].index = 1
        /\ Paths(c)[2].index = 3

C6_JpegPaths == {PJpgUpper, PJpeg}
C6_UnrecognizedPaths == {PBmp, PNoExt}

\* the path the j-th image of the call's request was read from, if any
C6_Source(c, j) ==
    LET a == calls[c].args IN
    CASE calls[c].name = "compare_images" ->
            IF j = 1 THEN a.image1Path ELSE a.image2Path
      [] calls[c].name = "multi_image_edit" ->
            IF Truthy(a.images[1][j].imageData) THEN None
            ELSE a.images[1][j].imagePath
      [] OTHER -> IF Truthy(a.imageData) THEN None ELSE a.imagePath

\* C6: every tool that reads an input image from a path sends a .jpg or
\* .jpeg path (any letter case) as image/jpeg and a path with an
\* unrecognized extension as image/png.
C6_PathMimeType ==
    \A c \in Calls :
        calls[c].name \in {"edit_image", "analyze_image", "multi_image_edit",
                           "generate_variations", "compare_images"} =>
            \A n \in 1..Len(calls[c].sent) :
                \A j \in 1..(Len(calls[c].sent[n].parts) - 1) :
                    LET src == C6_Source(c, j)
                        mime == calls[c].sent[n].parts[j + 1].mimeType
                    IN  /\ Present(src) /\ src[1] \in C6_JpegPaths =>
                              mime = "image/jpeg"
                        /\ Present(src) /\ src[1] \in C6_UnrecognizedPaths =>
                              mime = "image/png"

\* C7: every written file's extension is jpg when the response image part's
\* MIME type is exactly image/jpeg, png otherwise.
C7_ExtensionFollowsMimeType ==
    \A c \in Calls :
        \A w \in calls[c].wrote :
            w.filepath.ext =
                IF w.mimeType = "image/jpeg" THEN ".jpg" ELSE ".png"

\* the file paths a success payload names
ReportedPaths(c) ==
    {Paths(c)[j] : j \in 1..Len(Paths(c))}
    \cup {ReplyText(c).outcomes[j].filepath[1] :
            j \in {k \in 1..Len(ReplyText(c).outcomes) :
                      ReplyText(c).outcomes[k].success}}

\* the payload of the image part of the response the path was written from
PayloadOf(c, fp) ==
    FirstImage(calls[c].got[IF fp.index = 0 THEN 1 ELSE fp.index][1].resp).data

\* C8 as stated: after a call reports success with a file path, the file at
\* that path holds the base64-decoded payload of the image part of that
\* call's (that item's) response.
C8_RoundTrip ==
    \A c \in Calls :
        IsSuccessReply(c) =>
            \A fp \in ReportedPaths(c) :
                /\ fp \in DOMAIN files
                /\ files[fp] = Base64Decode(PayloadOf(c, fp))

\* C8 amended: the file holds the decoded payload of that call's image part
\* unless another call derived the same path and wrote it too, in which case
\* it holds the decoded payload of one of the calls that wrote it.
C8_RoundTripUnlessOverwritten ==
    \A c \in Calls :
        IsSuccessReply(c) =>
            \A fp \in ReportedPaths(c) :
                /\ fp \in DOMAIN files
                /\ \/ files[fp] = Base64Decode(PayloadOf(c, fp))
                   \/ \E d \in Calls \ {c} : \E w \in calls[d].wrote :
                         w.filepath = fp /\ files[fp] = Base64Decode(w.data)

\* two calls reported the same path with different payloads; the file holds
\* the decoded payload of one of them
C8_Witness ==
    \E c \in Calls : \E d \in Calls \ {c} :
        /\ IsSuccessReply(c)
        /\ IsSuccessReply(d)
        /\ \E fp \in ReportedPaths(c) \cap ReportedPaths(d) :
              /\ PayloadOf(c, fp) # PayloadOf(d, fp)
              /\ files[fp] = Base64Decode(PayloadOf(d, fp))
              /\ files[fp] # PayloadOf(d, fp)

\* C9: batch_generate, in both modes, issues exactly one model call per
\* prompt, never returns an error payload because an item failed, and records
\* each item's failure as that item's outcome.
C9_BatchContainment ==
    \A c \in Calls :
        Done(c) /\ calls[c].name = "batch_generate" /\ Len(calls[c].sent) > 0 =>
            LET prompts == calls[c].args.prompts[1] IN
            /\ IsSuccessReply(c)
            /\ Len(calls[c].sent) = Len(prompts)
            /\ \A k \in 1..Len(prompts) :
                  /\ calls[c].sent[k].parts = <<TextPart(<<prompts[k]>>)>>
                  /\ \E j \in 1..Len(Outcomes(c)) :
                        /\ Outcomes(c)[j].prompt = prompts[k]
                        /\ Outcomes(c)[j].success = ItemFileWritten("batch", k)

C10_Tools ==
    {"generate_image", "edit_image", "multi_image_edit", "generate_with_template"}

\* C10: for the single-image tools, a response without candidates, without
\* content parts in the first candidate, or without an inline-data part in
\* the first candidate ends the call in an error payload with no directory
\* created and no file written; otherwise the image written is the first
\* inline-data part of the first candidate.
C10_FirstImageOrError ==
    \A c \in Calls :
        /\ calls[c].name \in C10_Tools
        /\ Len(calls[c].got) = 1
        /\ ~calls[c].got[1][1].thrown
        => LET resp == calls[c].got[1][1].resp IN
           IF ~FirstCandidateHasImage(resp)
           THEN /\ IsErrorReply(c)
                /\ calls[c].mkdirs = 0
                /\ calls[c].writes = 0
                /\ files = <<>>
                /\ dirs = {}
           ELSE /\ Present(calls[c].cur)
                /\ calls[c].cur[1].data = FirstImage(resp).data
                /\ calls[c].cur[1].mimeType = FirstImage(resp).mimeType
                /\ \A fp \in DOMAIN files :
                      files[fp] = Base64Decode(FirstImage(resp).data)
                /\ IsSuccessReply(c) => Paths(c)[1] \in DOMAIN files

\* the response carried two image parts: the call wrote the first one
C10_Witness ==
    \E c \in Calls :
        /\ calls[c].name \in C10_Tools
        /\ IsSuccessReply(c)
        /\ calls[c].got[1][1].resp = RespTwoImages
        /\ files[Paths(c)[1]] = Base64Decode(D3)

\* the model response carries a textual answer: the first candidate has a
\* text part
C11_HasText(resp) ==
    /\ Present(resp.candidates)
    /\ Len(resp.candidates[1]) > 0
    /\ Present(resp.candidates[1][1].content)
    /\ Present(resp.candidates[1][1].content[1].parts)
    /\ \E k \in 1..Len(resp.candidates[1][1].content[1].parts[1]) :
          ~resp.candidates[1][1].content[1].parts[1][k].inline

\* C11: analyze_image and compare_images end in an error payload whenever the
\* model response has no textual output (no candidates, no content parts, no
\* text part), and in a success payload only when a textual answer is present.
C11_TextOrError ==
    \A c \in Calls :
        /\ calls[c].name \in {"analyze_image", "compare_images"}
        /\ Done(c)
        /\ Len(calls[c].got) = 1
        /\ ~calls[c].got[1][1].thrown
        => (IsSuccessReply(c) <=> C11_HasText(calls[c].got[1][1].resp))

\* the full prompt as the caller's arguments determine it
C12_Prompt(req) ==
    <<promptTemplates[req.args.template[1]], ". ", req.args.customization[1]>>

\* C12: for each of the ten template names and every customization,
\* generate_with_template sends exactly one request part, the text made of
\* the template string of that name, ". " and the customization, and its
\* report names that same text as the prompt used.
C12_TemplatePrompt ==
    \A c \in Calls :
        /\ Received(c)
        /\ calls[c].name = "generate_with_template"
        /\ Present(inbox[c][1].args.template)
        /\ inbox[c][1].args.template[1] \in TemplateNames
        /\ Present(inbox[c][1].args.customization)
        /\ GenerationConfigSchema(inbox[c][1].args.config)
        => /\ Len(calls[c].sent) = 1
           /\ calls[c].sent[1].parts = <<TextPart(C12_Prompt(inbox[c][1]))>>
           /\ IsSuccessReply(c) =>
                 ReplyText(c).body =
                     <<inbox[c][1].args.template[1], "Prompt used: ">>
                     \o C12_Prompt(inbox[c][1])

\* the logo template with a customization was sent and the call succeeded
C12_Witness ==
    \E c \in Calls :
        /\ calls[c].name = "generate_with_template"
        /\ IsSuccessReply(c)
        /\ inbox[c][1].args.template[1] = "logo"
        /\ calls[c].sent[1].parts[1].text =
              <<"Minimalist logo design, clean vector graphics, scalable, professional branding, modern design, simple geometric shapes, memorable icon",
                ". ", "for a coffee shop">>

\* the five-way mapping, path by path
C13_MimeType(p) ==
    CASE p \in {PJpgUpper, PJpeg} -> "image/jpeg"
      [] p = PGif -> "image/gif"
      [] p = PWebp -> "image/webp"
      [] p \in {PPng, PBmp, PNoExt} -> "image/png"

\* C13: edit_image, analyze_image, multi_image_edit and generate_variations
\* declare for an image read from a path the MIME type of the five-way
\* mapping on the lower-cased extension: .png image/png, .jpg and .jpeg
\* image/jpeg, .gif image/gif, .webp image/webp, anything else image/png.
C13_FiveWayMimeType ==
    \A c \in Calls :
        calls[c].name \in {"edit_image", "analyze_image", "multi_image_edit",
                           "generate_variations"} =>
            \A n \in 1..Len(calls[c].sent) :
                \A j \in 1..(Len(calls[c].sent[n].parts) - 1) :
                    LET src == C6_Source(c, j) IN
                    Present(src) =>
                        calls[c].sent[n].parts[j + 1].mimeType =
                            C13_MimeType(src[1])

\* the temperature of each variation strength, in tenths
C14_StrengthTemperature(strength) ==
    CASE strength = "subtle" -> 3
      [] strength = "moderate" -> 7
      [] strength = "strong" -> 12

\* the temperature the caller's arguments call for
C14_Temperature(a) ==
    IF Present(a.config) /\ Present(a.config[1].temperature)
    THEN a.config[1].temperature[1]
    ELSE C14_StrengthTemperature(IF Present(a.variationStrength)
                                 THEN a.variationStrength[1] ELSE "moderate")

\* C14: every call of generate_variations carries the caller's temperature
\* when the caller's config specifies one (0 included) and the temperature of
\* the variation strength (0.3, 0.7, 1.2) otherwise; all calls of one
\* invocation carry the same sampling configuration.
C14_VariationTemperature ==
    \A c \in Calls :
        calls[c].name = "generate_variations" =>
            \A n \in 1..Len(calls[c].sent) :
                /\ Present(calls[c].sent[n].generationConfig)
                /\ calls[c].sent[n].generationConfig[1].temperature =
                      Some(C14_Temperature(inbox[c][1].args))
                /\ calls[c].sent[n].generationConfig =
                      calls[c].sent[1].generationConfig

\* two strong variations were requested with temperature 0: both calls
\* carried temperature 0
C14_Witness ==
    \E c \in Calls :
        /\ calls[c].name = "generate_variations"
        /\ inbox[c][1].args.variationStrength = Some("strong")
        /\ inbox[c][1].args.config = Some(CfgTemp0)
        /\ Len(calls[c].sent) = 2
        /\ calls[c].sent[2].generationConfig[1].temperature = Some(0)

\* the count the caller's arguments call for, in tenths
C15_Count(a) == IF Present(a.count) THEN a.count[1] ELSE 3 * Scale

\* C15: for every count that validation accepts (3 when count is omitted),
\* generate_variations issues exactly count model calls and reports at most
\* count file paths.
C15_ExactlyCountCalls ==
    \A c \in Calls :
        /\ calls[c].name = "generate_variations"
        /\ IsSuccessReply(c)
        => /\ Len(calls[c].sent) * Scale = C15_Count(inbox[c][1].args)
           /\ Len(Paths(c)) * Scale <= C15_Count(inbox[c][1].args)

\* a positive integer, in tenths
C16_PositiveInteger(v) == v > 0 /\ v % Scale = 0

\* C16: a config whose maxOutputTokens is zero, negative or fractional is
\* rejected by validation before any model call, for every tool that takes a
\* config; every maxOutputTokens forwarded to the model is a positive
\* integer.
C16_MaxOutputTokensPositiveInteger ==
    \A c \in Calls :
        /\ Received(c) /\ calls[c].name \in ToolNames
           /\ Present(inbox[c][1].args.config)
           /\ Present(inbox[c][1].args.config[1].maxOutputTokens)
           /\ ~C16_PositiveInteger(inbox[c][1].args.config[1].maxOutputTokens[1])
           => IsErrorReply(c) /\ Len(calls[c].sent) = 0
        /\ \A n \in 1..Len(calls[c].sent) :
              /\ Present(calls[c].sent[n].generationConfig)
              /\ Present(calls[c].sent[n].generationConfig[1].maxOutputTokens)
              => C16_PositiveInteger(
                     calls[c].sent[n].generationConfig[1].maxOutputTokens[1])

\* a batch_generate call in sequential mode that has issued a model call
C17_Sequential(c) ==
    /\ calls[c].name = "batch_generate"
    /\ Len(calls[c].sent) > 0
    /\ ~calls[c].args.parallel[1]

\* model calls issued and not yet settled
InFlight(c) ==
    Len(calls[c].sent)
    - Cardinality({k \in 1..Len(calls[c].got) : Present(calls[c].got[k])})

\* C17: batch_generate with parallel = false has at most one model call in
\* flight, and when the call for prompts[i+1] has been issued item i is
\* finished: its call has settled, its outcome is recorded, and its file is
\* written when it succeeded.
C17_SequentialOneAtATime ==
    \A c \in Calls :
        C17_Sequential(c) =>
            /\ InFlight(c) \in {0, 1}
            /\ calls[c].pc \in {"mkdir", "write"} => InFlight(c) = 0
            /\ \A k \in 1..(Len(calls[c].sent) - 1) :
                  /\ Present(calls[c].got[k])
                  /\ Len(calls[c].results) >= k
                  /\ calls[c].results[k].prompt = calls[c].args.prompts[1][k]
                  /\ calls[c].results[k].success =>
                        \E w \in calls[c].wrote : w.filepath.index = k

\* a batch_generate call in parallel mode that passed validation
C18_Parallel(c) ==
    /\ calls[c].name = "batch_generate"
    /\ calls[c].pc # "idle"
    /\ calls[c].args.parallel = Some(TRUE)

\* C18: batch_generate with parallel = true issues the calls of all N prompts
\* before it waits for any of them: from its first await on all N calls have
\* been issued, whichever of them have settled, so all N are in flight
\* together and none waits for another to complete.
C18_ParallelAllIssued ==
    \A c \in Calls :
        C18_Parallel(c) =>
            LET prompts == calls[c].args.prompts[1] IN
            /\ Len(calls[c].sent) = Len(prompts)
            /\ \A k \in 1..Len(prompts) :
                  calls[c].sent[k].parts = <<TextPart(<<prompts[k]>>)>>
            /\ Len(calls[c].got) = Len(prompts)
            /\ InFlight(c) =
                  Cardinality({k \in 1..Len(prompts) : calls[c].got[k] = None})

\* the calls of all prompts of a batch of MaxPrompts are in flight together
C18_Witness ==
    \E c \in Calls :
        /\ C18_Parallel(c)
        /\ Len(calls[c].args.prompts[1]) = MaxPrompts
        /\ calls[c].pc = "join"
        /\ InFlight(c) = MaxPrompts

\* variation k of the call has a file written by the call
C19_Written(c, k) == \E w \in calls[c].wrote : w.filepath.index = k

\* variation k of the call has its path in the list of results
C19_Listed(c, k) ==
    \E j \in 1..Len(calls[c].results) : calls[c].results[j].index = k

\* C19: generate_variations has at most one model call in flight; when the
\* call for variation i+1 has been issued variation i is handled (its call
\* settled and its file written and listed, or the variation skipped); the
\* call ends only after the last variation's call and never in an error.
C19_VariationsOneAtATime ==
    \A c \in Calls :
        calls[c].name = "generate_variations" /\ Len(calls[c].sent) > 0 =>
            /\ InFlight(c) \in {0, 1}
            /\ calls[c].pc \in {"mkdir", "write"} => InFlight(c) = 0
            /\ \A k \in 1..(Len(calls[c].sent) - 1) :
                  /\ Present(calls[c].got[k])
                  /\ C19_Listed(c, k) <=> C19_Written(c, k)
                  /\ C19_Written(c, k) => ReturnedImage(c, k)
            /\ Done(c) =>
                  /\ IsSuccessReply(c)
                  /\ InFlight(c) = 0
                  /\ Len(calls[c].sent) * Scale >= C15_Count(inbox[c][1].args)

\* the first variation's call threw and was skipped; the second is being
\* written
C19_Witness ==
    \E c \in Calls :
        /\ calls[c].name = "generate_variations"
        /\ calls[c].pc = "write"
        /\ Len(calls[c].sent) = 2
        /\ calls[c].got[1][1].thrown
        /\ ~C19_Listed(c, 1)

\* the image references of the call's request, in order
C20_Refs(c) ==
    IF calls[c].name = "multi_image_edit"
    THEN inbox[c][1].args.images[1]
    ELSE <<inbox[c][1].args>>

\* C20: an image reference with non-empty inline data is sent with that data
\* verbatim and MIME type image/png and causes no file read, a path given
\* with it notwithstanding; a file is read only for a reference whose inline
\* data is absent or empty.
C20_InlineDataNoRead ==
    \A c \in Calls :
        /\ calls[c].name \in {"edit_image", "analyze_image", "multi_image_edit",
                              "generate_variations"}
        /\ calls[c].pc # "idle"
        /\ SchemaAccepts(inbox[c][1].name, inbox[c][1].args)
        => /\ \A n \in 1..Len(calls[c].sent) :
                 \A j \in 1..Len(C20_Refs(c)) :
                    Truthy(C20_Refs(c)[j].imageData) =>
                       /\ calls[c].sent[n].parts[j + 1].data =
                             C20_Refs(c)[j].imageData[1]
                       /\ calls[c].sent[n].parts[j + 1].mimeType = "image/png"
           /\ calls[c].reads <=
                 Cardinality({j \in 1..Len(C20_Refs(c)) :
                                 ~Truthy(C20_Refs(c)[j].imageData)})
           /\ calls[c].pc = "read" =>
                 ~Truthy(C20_Refs(c)[IF calls[c].name = "multi_image_edit"
                                     THEN calls[c].i ELSE 1].imageData)

\* edit_image was given inline data and a path: the data was sent, nothing
\* was read
C20_Witness ==
    \E c \in Calls :
        /\ calls[c].name = "edit_image"
        /\ inbox[c][1].args.imageData = Some(D1)
        /\ inbox[c][1].args.imagePath = Some(PJpeg)
        /\ Len(calls[c].sent) = 1
        /\ calls[c].sent[1].parts[2] = InlinePart(D1, "image/png")
        /\ calls[c].reads = 0

\* the base64 text image reference `ref` resolves to
C21_Data(ref) ==
    IF Truthy(ref.imageData) THEN ref.imageData[1]
    ELSE Base64Encode(InputDisk[ref.imagePath[1]])

\* the reference names a file that cannot be read
C21_Unreadable(ref) ==
    ~Truthy(ref.imageData) /\ ref.imagePath[1] \notin DOMAIN InputDisk

\* C21: multi_image_edit issues at most one model call, whose parts are the
\* text prompt followed by one image part per element of images in input
\* order, and issues it only after every image is resolved; when an image
\* cannot be read the call ends in an error payload with no model call
\* issued, no directory created and no file written.
C21_ResolveAllThenCall ==
    \A c \in Calls :
        /\ calls[c].name = "multi_image_edit"
        /\ calls[c].pc # "idle"
        /\ SchemaAccepts(inbox[c][1].name, inbox[c][1].args)
        => LET images == inbox[c][1].args.images[1]
               unreadable == \E j \in 1..Len(images) : C21_Unreadable(images[j])
           IN  /\ Len(calls[c].sent) <= 1
               /\ calls[c].pc = "read" => Len(calls[c].sent) = 0
               /\ Len(calls[c].sent) = 1 =>
                     /\ ~unreadable
                     /\ Len(calls[c].sent[1].parts) = 1 + Len(images)
                     /\ calls[c].sent[1].parts[1] =
                           TextPart(<<inbox[c][1].args.prompt[1]>>)
                     /\ \A j \in 1..Len(images) :
                           /\ calls[c].sent[1].parts[j + 1].inline
                           /\ calls[c].sent[1].parts[j + 1].data =
                                 C21_Data(images[j])
                     /\ calls[c].reads =
                           Cardinality({j \in 1..Len(images) :
                                           ~Truthy(images[j].imageData)})
               /\ unreadable =>
                     /\ Len(calls[c].sent) = 0
                     /\ calls[c].mkdirs = 0 /\ calls[c].writes = 0
                     /\ files = <<>>
                     /\ Done(c) => IsErrorReply(c)

\* an inline image followed by a file: both were sent, in that order
C21_Witness ==
    \E c \in Calls :
        /\ calls[c].name = "multi_image_edit"
        /\ Len(calls[c].sent) = 1
        /\ Len(calls[c].sent[1].parts) = 3
        /\ calls[c].sent[1].parts[2].data = D1
        /\ calls[c].sent[1].parts[3].data = Base64Encode(<<255>>)
        /\ calls[c].reads = 1

\* what the environment handed to the call: its arguments, the settled model
\* calls, the files written with their clock readings, how far it got
C22_Inputs(c) ==
    [request |-> inbox[c], got |-> calls[c].got, wrote |-> calls[c].wrote,
     cur |-> calls[c].cur, reads |-> calls[c].reads,
     mkdirs |-> calls[c].mkdirs, writes |-> calls[c].writes]

\* C22: no tool call changes what the server keeps between calls (the
\* credential, the model-client handle, the template table), and two calls
\* with the same arguments, the same model responses, the same file results
\* and the same clock readings issue the same requests and return the same
\* payload, whichever was delivered first and however they overlapped.
C22_NoSharedState ==
    /\ server = NewServer
    /\ \A c1, c2 \in Calls :
          Done(c1) /\ Done(c2) /\ C22_Inputs(c1) = C22_Inputs(c2) =>
              /\ calls[c1].sent = calls[c2].sent
              /\ calls[c1].reply = calls[c2].reply

\* two overlapping template calls with the same inputs ended with the same
\* success payload
C22_Witness ==
    /\ inbox[1] = Some(OverlapTemplate)
    /\ IsSuccessReply(1) /\ IsSuccessReply(2)
    /\ C22_Inputs(1) = C22_Inputs(2)
    /\ calls[1].reply = calls[2].reply
    /\ server = NewServer

\* two calls of the same single-image tool whose pending or finished writes
\* target the same directory, with the same extension and clock reading
C23_SameTick(c, d) ==
    /\ c # d
    /\ calls[c].name \in C10_Tools
    /\ calls[c].name = calls[d].name
    /\ Present(calls[c].cur) /\ Present(calls[d].cur)
    /\ calls[c].cur[1].filepath.dir = calls[d].cur[1].filepath.dir
    /\ calls[c].cur[1].filepath.ext = calls[d].cur[1].filepath.ext
    /\ calls[c].cur[1].filepath.ts = calls[d].cur[1].filepath.ts

\* the two calls derived one path and, when both succeeded, both name it and
\* it is one file
C23_OnePath(c, d) ==
    /\ calls[c].cur[1].filepath = calls[d].cur[1].filepath
    /\ IsSuccessReply(c) /\ IsSuccessReply(d) =>
          /\ Paths(c) = <<calls[c].cur[1].filepath>>
          /\ Paths(d) = Paths(c)
          /\ DOMAIN files = {calls[c].cur[1].filepath}

\* a successful write of a single-image tool leaves its own decoded payload
\* at its path, whether or not the path existed, and adds no other file
C23_WriteOverwrites ==
    \A c \in Calls :
        /\ calls[c].name \in C10_Tools
        /\ calls[c].pc = "write"
        /\ calls'[c].pc = "done"
        /\ ~calls'[c].reply[1].isError
        => /\ files'[calls[c].cur[1].filepath] =
                 Base64Decode(calls[c].cur[1].data)
           /\ DOMAIN files' = DOMAIN files \cup {calls[c].cur[1].filepath}

\* C23 as stated: two overlapping calls of the same single-image tool with
\* the same outputDir, the same extension and the same clock tick derive the
\* same path; the later write overwrites the earlier one and both calls
\* report success naming that path.
C23_SameTickSamePath ==
    /\ [](\A c, d \in Calls : C23_SameTick(c, d) => C23_OnePath(c, d))
    /\ [][C23_WriteOverwrites]_vars

\* C23 amended: the same, for two calls that also use the same filename
\* prefix, which for generate_with_template is the template name.
C23_SamePrefixSamePath ==
    /\ [](\A c, d \in Calls :
            /\ C23_SameTick(c, d)
            /\ calls[c].cur[1].filepath.prefix = calls[d].cur[1].filepath.prefix
            => C23_OnePath(c, d))
    /\ [][C23_WriteOverwrites]_vars

\* two generate_image calls with different payloads wrote in the same tick:
\* both succeeded naming the one path, which holds one of the payloads
C23_Witness ==
    \E c, d \in Calls :
        /\ C23_SameTick(c, d)
        /\ calls[c].name = "generate_image"
        /\ IsSuccessReply(c) /\ IsSuccessReply(d)
        /\ Paths(c) = Paths(d)
        /\ calls[c].cur[1].data # calls[d].cur[1].data
        /\ DOMAIN files = {Paths(c)[1]}
        /\ files[Paths(c)[1]] = Base64Decode(calls[d].cur[1].data)

\* the number of items of the call whose file has been written
C24_ItemsWritten(c) ==
    IF calls[c].name = "generate_variations" THEN Len(calls[c].results)
    ELSE IF calls[c].args.parallel[1]
    THEN Cardinality({k \in 1..Len(calls[c].items) :
                         /\ Present(calls[c].items[k].outcome)
                         /\ calls[c].items[k].outcome[1].success})
    ELSE CountOutcomes(calls[c].results, TRUE)

\* the paths the call has written
C24_PathsWritten(c) == {w.filepath : w \in calls[c].wrote}

\* C24: within one batch_generate call (either mode) or one
\* generate_variations call no two items write the same path, also when they
\* read the same clock tick: the paths written are as many as the items
\* written, and the path an item is about to write is neither written
\* already nor the path of another item in progress.
C24_DistinctItemPaths ==
    \A c \in Calls :
        /\ calls[c].name \in {"batch_generate", "generate_variations"}
        /\ Len(calls[c].sent) > 0
        => /\ Cardinality(C24_PathsWritten(c)) = C24_ItemsWritten(c)
           /\ calls[c].pc \in {"mkdir", "write"} =>
                 calls[c].cur[1].filepath \notin C24_PathsWritten(c)
           /\ \A j, k \in 1..Len(calls[c].items) :
                 /\ j # k
                 /\ Present(calls[c].items[j].cur)
                 /\ Present(calls[c].items[k].cur)
                 => calls[c].items[j].cur[1].filepath
                       # calls[c].items[k].cur[1].filepath

\* two items of a parallel batch were written in the same clock tick, to two
\* files
C24_Witness ==
    \E c \in Calls :
        /\ calls[c].name = "batch_generate"
        /\ IsSuccessReply(c)
        /\ calls[c].args.parallel[1]
        /\ C24_ItemsWritten(c) = 2
        /\ calls[c].items[1].cur[1].filepath.ts
              = calls[c].items[2].cur[1].filepath.ts
        /\ Cardinality(DOMAIN files) = 2

====
